---- MODULE Spec2Model ----
(***************************************************************************)
(* A model of make_vcards.py: the Slack user list is fetched (with a daily *)
(* cache), normalized into a table, and one vCard is written per row.      *)
(*                                                                         *)
(* Python values are modelled uniformly as sequences: a str is the         *)
(* sequence of its characters, and the non-string scalars (NaN, None,      *)
(* True, False, numbers) are one-element sequences whose element is a      *)
(* multi-character atom, so that no str can equal them.  A dict is a       *)
(* function whose DOMAIN is its key set; a missing key is a KeyError.      *)
(***************************************************************************)
EXTENDS Integers, Sequences, FiniteSets, TLC

VARIABLES
    python,     \* major version of the interpreter running the code (2 or 3)
    args,       \* arguments of the library call under test
    result,     \* its outcome: Pending, Return(value) or Raise(exception)
    files,      \* output files: name -> content (a sequence of written pieces)
    today,      \* the current UTC calendar day
    remote,     \* what https://slack.com/api/users.list answers right now
    cache,      \* cache folder: day -> text of <day>.json, or NoFile
    pc,         \* position of the running __main__ block
    json_data,  \* the __main__ block's json_data
    run         \* bookkeeping of the current run (what it has done so far)

vars == <<python, args, result, files, today, remote, cache, pc, json_data, run>>

(***************************************************************************)
(* Bounds of the model.                                                    *)
(***************************************************************************)
MaxMembers == 2     \* longest raw member list handed to df_user_list
MaxDay == 2         \* UTC days 0..MaxDay are covered by the clock
MaxRuns == 3        \* number of runs of the script

(***************************************************************************)
(* Python scalars and outcomes.                                            *)
(***************************************************************************)
NaN == <<"NaN">>
None == <<"None">>
True == <<"True">>
False == <<"False">>
Zero == <<"int(0)">>
Range(f) == {f[x] : x \in DOMAIN f}
Pending == [exc |-> "pending"]
Return(v) == [exc |-> "none", value |-> v]
Raise(e) == [exc |-> e]
Returned(r) == r.exc = "none"
Raised(r) == r.exc \notin {"none", "pending"}

LowerCase ==
    <<"a","b","c","d","e","f","g","h","i","j","k","l","m","n","o","p","q","r",
      "s","t","u","v","w","x","y","z">>
UpperCase ==
    <<"A","B","C","D","E","F","G","H","I","J","K","L","M","N","O","P","Q","R",
      "S","T","U","V","W","X","Y","Z">>
Chars ==
    Range(LowerCase) \cup Range(UpperCase)
    \cup {"0","1","2","5"," ","#","-","_","(",")","/",".",":","@","+"}
IsStr(v) == \A i \in 1..Len(v) : v[i] \in Chars
truthy(v) == v \notin {<<>>, None, False, Zero}
pd_notnull(v) == v \notin {NaN, None}

(***************************************************************************)
(* str methods.                                                            *)
(***************************************************************************)
WhiteSpace == {" ", "\t", "\n"}

RECURSIVE lstrip(_)
lstrip(s) ==
    IF s # <<>> /\ Head(s) \in WhiteSpace THEN lstrip(Tail(s)) ELSE s

RECURSIVE rstrip(_)
rstrip(s) ==
    IF s # <<>> /\ s[Len(s)] \in WhiteSpace
    THEN rstrip(SubSeq(s, 1, Len(s) - 1)) ELSE s

str_strip_identity(s) == s
str_strip(s) == rstrip(lstrip(s))

lower_char(c) ==
    IF \E i \in 1..Len(UpperCase) : UpperCase[i] = c
    THEN LowerCase[CHOOSE i \in 1..Len(UpperCase) : UpperCase[i] = c]
    ELSE c
str_lower(s) == [i \in 1..Len(s) |-> lower_char(s[i])]
str_upper(s) ==
    [i \in 1..Len(s) |->
        IF \E j \in 1..Len(LowerCase) : LowerCase[j] = s[i]
        THEN UpperCase[CHOOSE j \in 1..Len(LowerCase) : LowerCase[j] = s[i]]
        ELSE s[i]]

\* s.replace(old, new) for a one-character old and a new of length 0 or 1
RECURSIVE str_replace(_, _, _)
str_replace(s, old, new) ==
    IF s = <<>> THEN <<>>
    ELSE (IF Head(s) = old THEN new ELSE <<Head(s)>>)
         \o str_replace(Tail(s), old, new)

\* needle in s
str_contains(s, needle) ==
    \E i \in 1..(Len(s) - Len(needle) + 1) :
        SubSeq(s, i, i + Len(needle) - 1) = needle


(***************************************************************************)
(* Raw members of the users.list payload.  The strings are kept short; the *)
(* keys are those of the Slack user object that the code reads.            *)
(***************************************************************************)
slackbot == <<"s","l","a","c","k","b","o","t">>
default_ignore_key == <<"#","i","g","n","o","r","e">>

BaseProfile ==
    [first_name |-> <<"A","n","n">>,
     last_name |-> <<"L","e","e">>,
     real_name_normalized |-> <<"A","n","n"," ","L","e","e">>,
     email |-> <<"a","@","x">>,
     skype |-> <<"a","n","n">>,
     phone |-> <<"+","1">>,
     title |-> <<"D","e","v">>,
     image_1024 |-> <<"u",".","j","p","g">>,
     image_512 |-> <<"u",".","j","p","g">>,
     image_192 |-> <<"u",".","j","p","g">>,
     is_custom_image |-> True,
     display_name_normalized |-> <<"a","n","n">>]

BaseMember ==
    [id |-> <<"U","1">>, name |-> <<"a","n","n">>, is_bot |-> False,
     tz |-> <<"u","t","c">>, deleted |-> False, updated |-> Zero,
     profile |-> BaseProfile]

\* d without key k (del d[k])
Without(d, k) == [x \in DOMAIN d \ {k} |-> d[x]]
\* d with d[k] = v
With(d, k, v) == [x \in DOMAIN d \cup {k} |-> IF x = k THEN v ELSE d[x]]
WithProfile(m, k, v) == With(m, "profile", With(m["profile"], k, v))

Ann == BaseMember
AnnHyphen ==
    LET m == With(With(BaseMember, "id", <<"U","2">>), "name", <<"a","l">>)
    IN  With(m, "profile",
             Without(With(m["profile"], "real_name_normalized",
                          <<"a","n","n","-","l","e","e">>), "email"))
Bot ==
    LET m == With(With(With(BaseMember, "id", <<"B","1">>),
                       "name", <<"b","o","t">>), "is_bot", True)
    IN  WithProfile(WithProfile(m, "bot_id", <<"B","1">>),
                    "real_name_normalized", <<"B","o","t">>)
Slackbot ==
    WithProfile(With(With(BaseMember, "id", <<"S","1">>), "name", slackbot),
                "real_name_normalized", <<"S","l","a","c","k","b","o","t">>)
OptOut ==
    WithProfile(With(With(BaseMember, "id", <<"U","3">>), "name", <<"o","p">>),
                "title", <<" ","#","i","g","n","o","r","e"," ">>)
Blank ==
    WithProfile(With(With(BaseMember, "id", <<"U","4">>), "name", <<"b","l">>),
                "real_name_normalized", <<" "," ">>)
NoIsBot == Without(With(BaseMember, "id", <<"U","5">>), "is_bot")
NoName == Without(With(BaseMember, "id", <<"U","6">>), "name")
NoProfile == Without(With(BaseMember, "id", <<"U","7">>), "profile")

RawMembers ==
    {Ann, AnnHyphen, Bot, Slackbot, OptOut, Blank, NoIsBot, NoName, NoProfile}

RECURSIVE SeqsUpTo(_, _)
SeqsUpTo(S, n) ==
    IF n = 0 THEN {<<>>}
    ELSE LET shorter == SeqsUpTo(S, n - 1)
         IN  shorter \cup {Append(s, x) : s \in {t \in shorter : Len(t) = n - 1},
                                          x \in S}

RawMemberLists == SeqsUpTo(RawMembers, MaxMembers)
IgnoreKeys ==
    {default_ignore_key, <<"D","e","v">>, <<" ","#","i","g","n","o","r","e">>, <<>>}

(***************************************************************************)
(* is_bot                                                                  *)
(***************************************************************************)
is_bot_flag_only(member) ==
    IF "is_bot" \notin DOMAIN member THEN Raise("KeyError")
    ELSE Return(truthy(member["is_bot"]))

is_bot(member) ==
    IF "is_bot" \notin DOMAIN member THEN Raise("KeyError")
    ELSE IF truthy(member["is_bot"]) THEN Return(TRUE)
    ELSE IF "name" \notin DOMAIN member THEN Raise("KeyError")
    ELSE Return(member["name"] = slackbot)

(***************************************************************************)
(* json_normalize and the column renaming.  A column name is the sequence  *)
(* of its name parts and separators: "profile.title" is                    *)
(* <<"profile", ".", "title">>.                                            *)
(***************************************************************************)
FlatKeys(m) ==
    {<<k>> : k \in DOMAIN m \ {"profile"}}
    \cup (IF "profile" \in DOMAIN m
          THEN {<<"profile", ".", k>> : k \in DOMAIN m["profile"]}
          ELSE {})
FlatGet(m, c) == IF Len(c) = 1 THEN m[c[1]] ELSE m["profile"][c[3]]

\* rows keep the position of their member in the raw list (src)
json_normalize(members, idx) ==
    LET columns == UNION {FlatKeys(members[idx[i]]) : i \in 1..Len(idx)}
    IN  [columns |-> columns,
         rows |-> [i \in 1..Len(idx) |->
                    [src |-> idx[i],
                     cells |-> [c \in columns |->
                                 IF c \in FlatKeys(members[idx[i]])
                                 THEN FlatGet(members[idx[i]], c)
                                 ELSE NaN]]]]

\* c.replace('.', '_').replace('profile_', '')
RECURSIVE drop_profile_(_)
drop_profile_(c) ==
    IF Len(c) < 2 THEN c
    ELSE IF c[1] = "profile" /\ c[2] = "_" THEN drop_profile_(Tail(Tail(c)))
    ELSE <<Head(c)>> \o drop_profile_(Tail(c))
rename_column(c) ==
    drop_profile_([i \in 1..Len(c) |-> IF c[i] = "." THEN "_" ELSE c[i]])

rename_columns(df) ==
    LET columns == {rename_column(c) : c \in df.columns}
        old(n) == CHOOSE c \in df.columns : rename_column(c) = n
    IN  [columns |-> columns,
         rows |-> [i \in 1..Len(df.rows) |->
                    [src |-> df.rows[i].src,
                     cells |-> [n \in columns |-> df.rows[i].cells[old(n)]]]]]

(***************************************************************************)
(* df_user_list                                                            *)
(***************************************************************************)
cols(ignore_bots) ==
    << <<"first_name">>, <<"last_name">>, <<"real_name_normalized">>,
       <<"email">>, <<"skype">>, <<"phone">>, <<"title">>,
       <<"image_1024">>, <<"image_512">>, <<"image_192">>,
       <<"is_custom_image">>, <<"display_name_normalized">>, <<"tz">>,
       <<"id">>, <<"deleted">>, <<"updated">> >>
    \o (IF ~ignore_bots THEN << <<"bot_id">> >> ELSE <<>>)

\* the positions, in order, at which the boolean mask holds
RECURSIVE Positions(_)
Positions(mask) ==
    IF mask = <<>> THEN <<>>
    ELSE Positions(SubSeq(mask, 1, Len(mask) - 1))
         \o (IF mask[Len(mask)] THEN <<Len(mask)>> ELSE <<>>)

\* [m for m in members if ignore_bots and not is_bot(m)]
filter_members_keep(members, ignore_bots, i) ==
    ignore_bots /\ ~is_bot(members[i]).value

\* df[cols]
select_columns(df, cs) ==
    [columns |-> Range(cs),
     rows |-> [i \in 1..Len(df.rows) |->
                [src |-> df.rows[i].src,
                 cells |-> [c \in Range(cs) |-> df.rows[i].cells[c]]]]]

\* df.apply(lambda x: x.str.strip() if hasattr(x, 'str') else x): a column has
\* the .str accessor when it holds strings; its other values become NaN
strip_columns(df) ==
    LET has_str(c) == \E i \in 1..Len(df.rows) : IsStr(df.rows[i].cells[c])
        cell(v, c) == IF ~has_str(c) THEN v
                      ELSE IF IsStr(v) THEN str_strip(v) ELSE NaN
    IN  [df EXCEPT !.rows =
            [i \in 1..Len(df.rows) |->
                [src |-> df.rows[i].src,
                 cells |-> [c \in df.columns |-> cell(df.rows[i].cells[c], c)]]]]

\* df.replace('', np.nan, inplace=True)
replace_empty(df) ==
    [df EXCEPT !.rows =
        [i \in 1..Len(df.rows) |->
            [src |-> df.rows[i].src,
             cells |-> [c \in df.columns |->
                         IF df.rows[i].cells[c] = <<>> THEN NaN
                         ELSE df.rows[i].cells[c]]]]]

\* df[mask]; reset_index(drop=True) renumbers the rows 1..n in order
select_rows(df, mask) ==
    LET idx == Positions(mask)
    IN  [df EXCEPT !.rows = [i \in 1..Len(idx) |-> df.rows[idx[i]]]]

df_user_list(jd, make_useful, ignore_key, ignore_bots) ==
    IF "members" \notin DOMAIN jd THEN Raise("KeyError")
    ELSE
    LET members == jd["members"]
    IN  IF ignore_bots /\ \E i \in 1..Len(members) : Raised(is_bot(members[i]))
        THEN Raise("KeyError")
        ELSE
        LET filtered_members ==
                Positions([i \in 1..Len(members) |->
                              filter_members_keep(members, ignore_bots, i)])
            df0 == rename_columns(json_normalize(members, filtered_members))
        IN  IF ~make_useful THEN Return(df0)
            ELSE IF \E c \in Range(cols(ignore_bots)) : c \notin df0.columns
            THEN Raise("KeyError")
            ELSE
            LET df1 == select_columns(df0, cols(ignore_bots))
                df2 == replace_empty(strip_columns(df1))
                df3 == select_rows(df2,
                          [i \in 1..Len(df2.rows) |->
                              df2.rows[i].cells[<<"title">>] # ignore_key])
                df4 == select_rows(df3,
                          [i \in 1..Len(df3.rows) |->
                              pd_notnull(df3.rows[i].cells[<<"real_name_normalized">>])])
            IN  Return(df4)

(***************************************************************************)
(* Library calls of df_user_list on bounded inputs.                        *)
(***************************************************************************)
Idle ==
    /\ python = 3
    /\ files = <<>>
    /\ today = 0
    /\ remote = [status |-> 200, body |-> <<>>]
    /\ cache = <<>>
    /\ pc = "idle"
    /\ json_data = <<>>
    /\ run = <<>>

NormInit ==
    /\ Idle
    /\ result = Pending
    /\ args \in [json_data : {[ok |-> True, members |-> l] : l \in RawMemberLists},
                 make_useful : BOOLEAN,
                 ignore_key : IgnoreKeys,
                 ignore_bots : BOOLEAN]

Call_df_user_list ==
    /\ result = Pending
    /\ result' = df_user_list(args.json_data, args.make_useful,
                              args.ignore_key, args.ignore_bots)
    /\ UNCHANGED <<python, args, files, today, remote, cache, pc, json_data, run>>

NormNext == Call_df_user_list
SpecNorm == NormInit /\ [][NormNext]_vars

(***************************************************************************)
(* The output file name of a row (the __main__ loop).  dir_name is a free  *)
(* name in the source; it is a parameter here.                             *)
(***************************************************************************)
make_filename(dir_name, real_name_normalized) ==
    LET f0 == dir_name \o real_name_normalized \o <<".","v","c","f">>
        f1 == str_replace(str_replace(str_lower(f0), " ", <<"_">>), "-", <<"_">>)
    IN  str_replace(str_replace(f1, "(", <<>>), ")", <<>>)

OutDir == <<"o","u","t","/">>

(***************************************************************************)
(* Properties of df_user_list (checked under SpecNorm).                    *)
(***************************************************************************)
Members == args.json_data["members"]
Rows == result.value.rows
FlaggedBot(m) == "is_bot" \in DOMAIN m /\ m["is_bot"] = True
NamedSlackbot(m) == "name" \in DOMAIN m /\ m["name"] = slackbot
Spaces(n) == [i \in 1..n |-> " "]
\* t is key with spaces before and after it (none included)
Padded(t, key) ==
    \E a \in 0..2, b \in 0..2 : t = Spaces(a) \o key \o Spaces(b)
HasProfileKey(m, k) == "profile" \in DOMAIN m /\ k \in DOMAIN m["profile"]
\* a structurally complete human member with a name who has not opted out
Complete(m) ==
    /\ {"is_bot", "name", "profile", "id", "tz", "deleted", "updated"}
           \subseteq DOMAIN m
    /\ DOMAIN BaseProfile \ {"email"} \subseteq DOMAIN m["profile"]
Listed(m, key) ==
    /\ HasProfileKey(m, "real_name_normalized")
    /\ ~Padded(m["profile"]["real_name_normalized"], <<>>)
    /\ ~(HasProfileKey(m, "title") /\ Padded(m["profile"]["title"], key))

\* C1: with ignore_bots=True no row of the returned table comes from a member
\* whose is_bot flag is true or whose name is 'slackbot'.
C1_BotsExcluded ==
    (Returned(result) /\ args.ignore_bots) =>
        \A i \in 1..Len(Rows) :
            /\ ~FlaggedBot(Members[Rows[i].src])
            /\ ~NamedSlackbot(Members[Rows[i].src])

C1_Witness ==
    /\ Returned(result) /\ args.ignore_bots /\ args.make_useful
    /\ Len(Rows) > 0
    /\ \E i \in 1..Len(Members) :
          NamedSlackbot(Members[i]) /\ ~FlaggedBot(Members[i])

\* C2: with ignore_bots=False the bot filter drops nobody: the call returns and
\* every named member who has not opted out, bot or human, has a row.
C2_BotsIncludedOnRequest ==
    (/\ result # Pending /\ ~args.ignore_bots
     /\ \E i \in 1..Len(Members) : Listed(Members[i], args.ignore_key)) =>
        /\ Returned(result)
        /\ \A i \in 1..Len(Members) :
              Listed(Members[i], args.ignore_key) =>
                  \E j \in 1..Len(Rows) : Rows[j].src = i

\* C3 as stated, for every ignore key: with make_useful=True no row has the
\* ignore key as its title, none comes from a member whose raw title is the
\* ignore key padded with spaces, and every row has a present, non-empty
\* real_name_normalized.
C3_AnyKey ==
    (Returned(result) /\ args.make_useful) =>
        \A i \in 1..Len(Rows) :
            LET m == Members[Rows[i].src]
                name == Rows[i].cells[<<"real_name_normalized">>]
            IN  /\ Rows[i].cells[<<"title">>] # args.ignore_key
                /\ ~(HasProfileKey(m, "title")
                     /\ Padded(m["profile"]["title"], args.ignore_key))
                /\ pd_notnull(name) /\ IsStr(name) /\ name # <<>>

\* the key is not empty and has no space at either end
Trimmed(key) == key # <<>> /\ key[1] # " " /\ key[Len(key)] # " "

\* C3 (amended): with make_useful=True no row has the ignore key as its
\* title and every row has a present, non-empty real_name_normalized; when
\* the ignore key is non-empty and has no outer whitespace, no row comes from
\* a member whose raw title is the key padded with spaces.
C3_NoOptOutNoNameless ==
    (Returned(result) /\ args.make_useful) =>
        \A i \in 1..Len(Rows) :
            LET m == Members[Rows[i].src]
                name == Rows[i].cells[<<"real_name_normalized">>]
            IN  /\ Rows[i].cells[<<"title">>] # args.ignore_key
                /\ Trimmed(args.ignore_key) =>
                      /\ ~Padded(Rows[i].cells[<<"title">>], args.ignore_key)
                      /\ ~(HasProfileKey(m, "title")
                           /\ Padded(m["profile"]["title"], args.ignore_key))
                /\ pd_notnull(name) /\ IsStr(name) /\ name # <<>>
                /\ ~Padded(name, <<>>)

C3_Witness ==
    /\ Returned(result) /\ args.make_useful /\ Trimmed(args.ignore_key)
    /\ Len(Rows) > 0
    /\ \E i \in 1..Len(Members) :
          /\ HasProfileKey(Members[i], "title")
          /\ Members[i]["profile"]["title"] # args.ignore_key
          /\ Padded(Members[i]["profile"]["title"], args.ignore_key)

\* C9: any two distinct rows of the returned table get different file names.
C9_UniqueFilenames ==
    (Returned(result) /\ args.make_useful) =>
        \A i, j \in 1..Len(Rows) :
            Rows[i].cells[<<"id">>] # Rows[j].cells[<<"id">>] =>
                make_filename(OutDir, Rows[i].cells[<<"real_name_normalized">>])
                # make_filename(OutDir, Rows[j].cells[<<"real_name_normalized">>])

\* C10: a member lacking required structure does not abort the call: it
\* returns, and the complete, listed human members of the list have their rows.
C10_MalformedSkipped ==
    (/\ result # Pending /\ args.ignore_bots /\ args.make_useful
     /\ \E i \in 1..Len(Members) :
            /\ Complete(Members[i]) /\ Listed(Members[i], args.ignore_key)
            /\ ~FlaggedBot(Members[i]) /\ ~NamedSlackbot(Members[i])) =>
        /\ Returned(result)
        /\ \A i \in 1..Len(Members) :
              (/\ Complete(Members[i])
               /\ Listed(Members[i], args.ignore_key)
               /\ ~FlaggedBot(Members[i]) /\ ~NamedSlackbot(Members[i])) =>
                  \E j \in 1..Len(Rows) : Rows[j].src = i

(***************************************************************************)
(* Avatars.  The network is a fixed table: the URL a request ends at after *)
(* redirects, and the body it returns.                                     *)
(***************************************************************************)
default_avatar_path ==
    <<"/","a",".","s","l","a","c","k","-","e","d","g","e",".","c","o",
      "m","/","d","f","1","0","d","/","i","m","g","/","a","v","a","t",
      "a","r","s","/","a","v","a","_">>
PlaceholderUrl ==
    <<"h","t","t","p","s",":","/","/","a",".","s","l","a","c","k","-",
      "e","d","g","e",".","c","o","m","/","d","f","1","0","d","/","i",
      "m","g","/","a","v","a","t","a","r","s","/","a","v","a","_","1",
      ".","p","n","g">>
RedirectedUrl == <<"h","t","t","p","s",":","/","/","x",".","i","o","/","r",".","p","n","g">>
JpgUrl == <<"h","t","t","p","s",":","/","/","x",".","i","o","/","u",".","j","p","g">>
PngUrl == <<"h","t","t","p","s",":","/","/","x",".","i","o","/","u",".","p","n","g">>
PicUrls == {PlaceholderUrl, RedirectedUrl, JpgUrl, PngUrl}

\* requests.get(url): r.url and r.content
requests_get(url) ==
    [url |-> IF url = RedirectedUrl THEN PlaceholderUrl ELSE url,
     content |-> <<"bytes of">> \o url]

skip_avatar(url) == str_contains(url, default_avatar_path)

url_to_data(url) ==
    IF skip_avatar(url) THEN None
    ELSE LET r == requests_get(url)
         IN  IF skip_avatar(r.url) THEN None ELSE r.content

\* img_to_b64 is not defined anywhere in the module: the call raises NameError
img_to_b64(pic_url) == Raise("NameError")

\* os.path.splitext(p)[1]: from the last dot of the last path component on,
\* leading dots of the component excluded
splitext_ext(p) ==
    LET slashes == {i \in 1..Len(p) : p[i] = "/"}
        start == IF slashes = {} THEN 1
                 ELSE 1 + CHOOSE i \in slashes : \A j \in slashes : j <= i
        dots == {i \in start..Len(p) :
                    p[i] = "." /\ \E j \in start..(i - 1) : p[j] # "."}
    IN  IF dots = {} THEN <<>>
        ELSE SubSeq(p, CHOOSE i \in dots : \A j \in dots : j <= i, Len(p))

(***************************************************************************)
(* write_vcard.  A file is the sequence of the pieces written to it; a     *)
(* piece is a format string, its arguments, and whether it ends in "\n".   *)
(* A write of a text with an inner "\n" is a write of two pieces.          *)
(***************************************************************************)
Piece(fmt, vals) == [fmt |-> fmt, vals |-> vals, nl |-> TRUE]
Partial(fmt, vals) == [fmt |-> fmt, vals |-> vals, nl |-> FALSE]

\* lines 138-139
name_lines(first, last, full) ==
    IF pd_notnull(first) /\ pd_notnull(last) /\ pd_notnull(full)
    THEN <<Piece("FN:{}", <<full>>), Piece("N:{};{};;;", <<last, first>>)>>
    ELSE <<>>

skype_lines_google_first(skype) ==
    IF pd_notnull(skype)
    THEN <<Piece("X-SKYPE:{}", <<skype>>),
           Partial("IMPP;X-SERVICE-TYPE=Skype;type=HOME;", <<>>),
           Piece("skype:{}", <<skype>>)>>
    ELSE <<>>

\* lines 147-154
skype_lines(skype) ==
    IF pd_notnull(skype)
    THEN <<Partial("IMPP;X-SERVICE-TYPE=Skype;type=HOME;", <<>>),
           Piece("skype:{}", <<skype>>),
           Piece("X-SKYPE:{}", <<skype>>)>>
    ELSE <<>>

\* the outcome of a call: the exception (or "none") and the file it leaves
write_vcard(py, first, last, full, email, tel, skype, title, pic_url) ==
    IF py = 3
    THEN \* f.write(str) on a file opened 'wb' raises TypeError at line 136
         [exc |-> "TypeError", file |-> <<>>]
    ELSE
    LET f1 == <<Piece("BEGIN:VCARD", <<>>), Piece("VERSION:3.0", <<>>)>>
        f2 == f1 \o name_lines(first, last, full)
        f3 == f2 \o (IF pd_notnull(email)
                     THEN <<Piece("EMAIL;TYPE=INTERNET;TYPE=HOME:{}", <<email>>)>>
                     ELSE <<>>)
        f4 == f3 \o (IF pd_notnull(tel)
                     THEN <<Piece("TEL;PREF=1;TYPE=CELL:{}", <<tel>>)>>
                     ELSE <<>>)
        f5 == f4 \o skype_lines(skype)
        f6 == f5 \o (IF pd_notnull(title)
                     THEN <<Piece("TITLE:{}", <<title>>)>> ELSE <<>>)
    IN  IF pd_notnull(pic_url)
        THEN LET f7 == Append(f6, Partial("PHOTO;ENCODING=b;TYPE=", <<>>))
                 url_ext == splitext_ext(pic_url)
                 ext == IF url_ext \in {<<".","j","p","e","g">>, <<".","j","p","g">>}
                        THEN <<"J","P","E","G">> ELSE str_upper(url_ext)
                 b64 == img_to_b64(pic_url)
             IN  IF Raised(b64) THEN [exc |-> b64.exc, file |-> f7]
                 ELSE [exc |-> "none",
                       file |-> f7 \o <<Piece("{}:{}", <<ext, b64.value>>),
                                        Piece("END:VCARD", <<>>)>>]
        ELSE [exc |-> "none", file |-> Append(f6, Piece("END:VCARD", <<>>))]

(***************************************************************************)
(* Library calls of write_vcard on bounded inputs, under either            *)
(* interpreter.                                                            *)
(***************************************************************************)
CardFile == <<"a",".","v","c","f">>
Opt(v) == {NaN, v}

CardInit ==
    /\ python \in {2, 3}
    /\ files = <<>>
    /\ today = 0
    /\ remote = [status |-> 200, body |-> <<>>]
    /\ cache = <<>>
    /\ pc = "idle"
    /\ json_data = <<>>
    /\ run = <<>>
    /\ result = Pending
    /\ args \in [filename : {CardFile},
                 first : Opt(<<"A","n","n">>),
                 last : Opt(<<"L","e","e">>),
                 full : Opt(<<"A","n","n"," ","L","e","e">>),
                 email : Opt(<<"a","@","x">>),
                 tel : Opt(<<"+","1">>),
                 skype : Opt(<<"a","n","n">>),
                 title : Opt(<<"D","e","v">>),
                 pic_url : {NaN} \cup PicUrls]

Call_write_vcard ==
    /\ result = Pending
    /\ LET out == write_vcard(python, args.first, args.last, args.full,
                              args.email, args.tel, args.skype, args.title,
                              args.pic_url)
       IN  /\ files' = [n \in {args.filename} |-> out.file]
           /\ result' = IF out.exc = "none" THEN Return(None)
                        ELSE Raise(out.exc)
    /\ UNCHANGED <<python, args, today, remote, cache, pc, json_data, run>>

CardNext == Call_write_vcard
SpecCard == CardInit /\ [][CardNext]_vars

(***************************************************************************)
(* Properties of write_vcard (checked under SpecCard).                     *)
(***************************************************************************)
\* the lines of a file: the pieces up to each "\n"; an unterminated tail is
\* the last line
RECURSIVE LinesOf(_)
LinesOf(content) ==
    IF content = <<>> THEN <<>>
    ELSE LET ends == {i \in 1..Len(content) : content[i].nl}
             k == IF ends = {} THEN Len(content)
                  ELSE CHOOSE i \in ends : \A j \in ends : i <= j
         IN  <<SubSeq(content, 1, k)>>
             \o LinesOf(SubSeq(content, k + 1, Len(content)))

Card == LinesOf(files[args.filename])
Written == result # Pending
\* line begins with the text fmt
Begins(line, fmt) == line[1].fmt = fmt
IsLine(line, fmt, vals) == line = <<Piece(fmt, vals)>>
IsImpp(line, v) ==
    line = <<Partial("IMPP;X-SERVICE-TYPE=Skype;type=HOME;", <<>>),
             Piece("skype:{}", <<v>>)>>
BeginsImpp(line) == Begins(line, "IMPP;X-SERVICE-TYPE=Skype;type=HOME;")
BeginsXSkype(line) == Begins(line, "X-SKYPE:{}")
BeginsPhoto(line) == Begins(line, "PHOTO;ENCODING=b;TYPE=")

\* C4: a card has FN:<full> right after VERSION:3.0 whenever full is present,
\* whatever first and last are; the N line is there exactly when all three are.
C4_FnWheneverFull ==
    (Written /\ Returned(result)) =>
        /\ pd_notnull(args.full) =>
              (Len(Card) >= 3 /\ IsLine(Card[2], "VERSION:3.0", <<>>)
               /\ IsLine(Card[3], "FN:{}", <<args.full>>))
        /\ (\E i \in 1..Len(Card) : Begins(Card[i], "N:{};{};;;"))
              <=> (/\ pd_notnull(args.first) /\ pd_notnull(args.last)
                   /\ pd_notnull(args.full))

\* C5: in the card, a line beginning X-SKYPE directly follows a line beginning
\* IMPP with the same skype value, and the other way round; a call that
\* completes with a skype value has written both; without one, neither.
C5_ImppBeforeXSkype ==
    Written =>
        /\ \A i \in 1..Len(Card) :
              BeginsXSkype(Card[i]) =>
                  /\ i > 1 /\ IsImpp(Card[i - 1], args.skype)
                  /\ IsLine(Card[i], "X-SKYPE:{}", <<args.skype>>)
        /\ \A i \in 1..Len(Card) :
              BeginsImpp(Card[i]) =>
                  /\ i < Len(Card) /\ BeginsXSkype(Card[i + 1])
                  /\ \A j \in 1..Len(Card) : BeginsImpp(Card[j]) => j = i
        /\ (Returned(result) /\ pd_notnull(args.skype)) =>
              \E i \in 1..Len(Card) : IsImpp(Card[i], args.skype)
        /\ ~pd_notnull(args.skype) =>
              \A i \in 1..Len(Card) :
                  ~BeginsImpp(Card[i]) /\ ~BeginsXSkype(Card[i])

C5_Witness ==
    /\ Written /\ Returned(result) /\ pd_notnull(args.skype)
    /\ \E i \in 2..Len(Card) :
          IsImpp(Card[i - 1], args.skype) /\ BeginsXSkype(Card[i])

\* C6: when the avatar URL is present and its fetch returns absent, the card
\* has no PHOTO line, not even the prefix, and ends with END:VCARD.
C6_NoPhotoForPlaceholder ==
    (Written /\ pd_notnull(args.pic_url) /\ url_to_data(args.pic_url) = None) =>
        /\ \A i \in 1..Len(Card) : ~BeginsPhoto(Card[i])
        /\ Len(Card) > 0 /\ IsLine(Card[Len(Card)], "END:VCARD", <<>>)

(***************************************************************************)
(* The daily cache and the request.  A Python object that may be None is   *)
(* wrapped: PyNone, or PyDict(d) for the dict d.                           *)
(***************************************************************************)
PyNone == [type |-> "NoneType"]
PyDict(d) == [type |-> "dict", items |-> d]
\* not obj
py_not(obj) == obj.type = "NoneType" \/ DOMAIN obj.items = {}

NoFile == [exists |-> FALSE]
File(text) == [exists |-> TRUE, text |-> text]

\* json.dumps / json.loads of a dict: the text is the sequence of its
\* key-value pairs
KeyOrder == <<"ok", "error", "members">>
json_dumps(d) ==
    LET keys == SelectSeq(KeyOrder, LAMBDA k : k \in DOMAIN d)
    IN  [i \in 1..Len(keys) |-> <<keys[i], d[keys[i]]>>]
json_loads(text) ==
    [k \in {text[i][1] : i \in 1..Len(text)} |->
        (CHOOSE pair \in Range(text) : pair[1] = k)[2]]

\* _cachefile: the path is named after the UTC day of the call
cachefile(day) == day

cached_user_list_miss(fs, day) == PyNone

cached_user_list(fs, day) ==
    IF ~fs[cachefile(day)].exists THEN PyNone
    ELSE PyDict(json_loads(fs[cachefile(day)].text))

cache_user_list(fs, day, jd) ==
    [fs EXCEPT ![cachefile(day)] = File(json_dumps(jd.items))]

\* requests.Response.ok
response_ok(r) == r.status < 400

get_user_list_unchecked(r) == Return(PyDict(r.body))

get_user_list(r) ==
    IF ~response_ok(r) THEN [exc |-> "Exception", status_code |-> r.status]
    ELSE Return(PyDict(r.body))

UserList1 == [ok |-> True, members |-> <<Ann>>]
UserList2 == [ok |-> True, members |-> <<Ann, OptOut>>]
ErrorBody == [ok |-> False, error |-> <<"n","o","_","a","u","t","h">>]
EmptyBody == <<>>
Responses ==
    {[status |-> 200, body |-> UserList1],
     [status |-> 200, body |-> UserList2],
     [status |-> 200, body |-> ErrorBody],
     [status |-> 200, body |-> EmptyBody],
     [status |-> 500, body |-> ErrorBody]}

(***************************************************************************)
(* The __main__ block, one run after the other.  run and saves are         *)
(* bookkeeping: what the current run has done, and every payload written   *)
(* to each day's cache file, in order.                                     *)
(***************************************************************************)
NewRun(n) ==
    [no |-> n, load_day |-> -1, hit |-> FALSE, status |-> 0,
     fetched |-> FALSE, saved |-> FALSE, normalized |-> FALSE,
     cache0 |-> cache, exc |-> "none", saves |-> run.saves]

RunInit ==
    /\ python = 3
    /\ args = <<>>
    /\ result = Pending
    /\ files = <<>>
    /\ today = 0
    /\ remote \in Responses
    /\ cache = [d \in 0..MaxDay |-> NoFile]
    /\ pc = "idle"
    /\ json_data = PyNone
    /\ run = [no |-> 0, load_day |-> -1, hit |-> FALSE, status |-> 0,
              fetched |-> FALSE, saved |-> FALSE, normalized |-> FALSE,
              cache0 |-> cache, exc |-> "none",
              saves |-> [d \in 0..MaxDay |-> <<>>]]

\* the clock passes midnight UTC
Tick ==
    /\ today < MaxDay
    /\ today' = today + 1
    /\ UNCHANGED <<python, args, result, files, remote, cache, pc, json_data, run>>

\* the workspace changes, or the API starts or stops failing
RemoteChange ==
    /\ remote' \in Responses \ {remote}
    /\ UNCHANGED <<python, args, result, files, today, cache, pc, json_data, run>>

StartRun ==
    /\ pc = "idle"
    /\ run.no < MaxRuns
    /\ pc' = "cached_user_list"
    /\ json_data' = PyNone
    /\ result' = Pending
    /\ run' = NewRun(run.no + 1)
    /\ UNCHANGED <<python, args, files, today, remote, cache>>

\* lines 197-198
Main_cached_user_list ==
    /\ pc = "cached_user_list"
    /\ json_data' = cached_user_list(cache, today)
    /\ pc' = IF py_not(json_data') THEN "get_user_list" ELSE "df_user_list"
    /\ run' = [run EXCEPT
                 !.load_day = today,
                 !.hit = /\ run.saves[today] # <<>>
                         /\ "members" \in
                              DOMAIN run.saves[today][Len(run.saves[today])]]
    /\ UNCHANGED <<python, args, result, files, today, remote, cache>>

\* line 199
Main_get_user_list ==
    /\ pc = "get_user_list"
    /\ LET r == get_user_list(remote)
       IN  /\ json_data' = IF Returned(r) THEN r.value ELSE json_data
           /\ pc' = IF Returned(r) THEN "cache_user_list" ELSE "aborted"
           /\ run' = [run EXCEPT !.fetched = TRUE, !.status = remote.status,
                                 !.cache0 = cache,
                                 !.exc = IF Returned(r) THEN "none" ELSE r]
    /\ UNCHANGED <<python, args, result, files, today, remote, cache>>

\* line 200
Main_cache_user_list ==
    /\ pc = "cache_user_list"
    /\ cache' = cache_user_list(cache, today, json_data)
    /\ pc' = "df_user_list"
    /\ run' = [run EXCEPT !.saved = TRUE,
                          !.saves[today] = Append(@, json_data.items)]
    /\ UNCHANGED <<python, args, result, files, today, remote, json_data>>

\* line 201
Main_df_user_list ==
    /\ pc = "df_user_list"
    /\ result' = df_user_list(json_data.items, TRUE, default_ignore_key, TRUE)
    /\ pc' = IF Returned(result') THEN "mkdir_p" ELSE "aborted"
    /\ run' = [run EXCEPT !.normalized = TRUE,
                          !.exc = IF Returned(result') THEN "none" ELSE result']
    /\ UNCHANGED <<python, args, files, today, remote, cache, json_data>>

\* line 202: dir_name is not defined, the call raises NameError; the lines
\* after it (the CSV, the loop over the rows) are never reached
Main_mkdir_p ==
    /\ pc = "mkdir_p"
    /\ pc' = "aborted"
    /\ run' = [run EXCEPT !.exc = Raise("NameError")]
    /\ UNCHANGED <<python, args, result, files, today, remote, cache, json_data>>

\* the process ends with the traceback
Exit ==
    /\ pc = "aborted"
    /\ pc' = "idle"
    /\ UNCHANGED <<python, args, result, files, today, remote, cache, json_data, run>>

RunNext ==
    \/ Tick
    \/ RemoteChange
    \/ StartRun
    \/ Main_cached_user_list
    \/ Main_get_user_list
    \/ Main_cache_user_list
    \/ Main_df_user_list
    \/ Main_mkdir_p
    \/ Exit

SpecRun == RunInit /\ [][RunNext]_vars

(***************************************************************************)
(* Properties of the runs (checked under SpecRun).                         *)
(***************************************************************************)
IsUserList(payload) == "members" \in DOMAIN payload
Loaded == pc \notin {"idle", "cached_user_list"} \/ (pc = "idle" /\ run.no > 0)
LastSaved(d) == run.saves[d][Len(run.saves[d])]

\* C7: once a fetched user list is saved for a UTC day, a later run on that
\* day gets exactly that payload from the cache, fetches nothing and saves
\* nothing, and the day's snapshot is never written a second time.
C7_SameDayRunsUseCache ==
    /\ (Loaded /\ run.hit) =>
          /\ json_data = PyDict(LastSaved(run.load_day))
          /\ ~run.fetched /\ ~run.saved
          /\ cache = run.cache0
    /\ \A d \in 0..MaxDay :
          \A i \in 1..Len(run.saves[d]) :
              IsUserList(run.saves[d][i]) => i = Len(run.saves[d])
    /\ \A d \in 0..MaxDay :
          (run.saves[d] # <<>> /\ IsUserList(LastSaved(d))) =>
              /\ cache[d].exists
              /\ json_loads(cache[d].text) = LastSaved(d)

C7_Witness ==
    /\ pc = "mkdir_p" /\ run.hit /\ run.no >= 2
    /\ response_ok(remote) /\ IsUserList(remote.body)
    /\ remote.body # json_data.items

\* C8: when the request returns a non-success status the run aborts with an
\* exception carrying the status code; it saves no snapshot, does not run
\* df_user_list and writes no file.
C8_BadStatusAborts ==
    (run.fetched /\ run.status >= 400) =>
        /\ pc \in {"aborted", "idle"}
        /\ run.exc.exc = "Exception" /\ run.exc.status_code = run.status
        /\ ~run.saved /\ ~run.normalized
        /\ cache = run.cache0
        /\ files = <<>>

C8_Witness ==
    /\ pc = "aborted" /\ run.fetched /\ run.status >= 400
    /\ run.exc.exc = "Exception"

====
